---------------------------- MODULE Spec2Model ----------------------------
(***************************************************************************)
(* Request routing and metadata resolution of the metadata API             *)
(* (src/handlers/__init__.py).                                              *)
(*                                                                         *)
(* Text (request paths, route patterns, response bodies) is a sequence of  *)
(* atoms.  An atom is a string standing for a run of characters that the   *)
(* program never splits: "/" is one atom, every decimal digit is one atom, *)
(* "?" and "$" are atoms, and a word such as "meta-data" is one atom.      *)
(***************************************************************************)
EXTENDS Integers, Sequences, FiniteSets, TLC

VARIABLES order, directory, reqs

vars == <<order, directory, reqs>>

-----------------------------------------------------------------------------
(* Bounds of the model.                                                    *)

MaxKeys == 2

NumReqs == 2

MaxPathLen == 4

-----------------------------------------------------------------------------
(* Text helpers.                                                           *)

Slash == "/"

Digits == {"0", "1", "2", "3", "4", "5", "6", "7", "8", "9"}

DigitChar == <<"0", "1", "2", "3", "4", "5", "6", "7", "8", "9">>

DigitVal(c) == (CHOOSE i \in 1..10 : DigitChar[i] = c) - 1

\* Python's None for an optional handler argument.  A captured group is never
\* empty (\d+, [^/]+ and a literal all consume at least one atom).
None == <<>>

RECURSIVE Concat(_)
Concat(ss) == IF ss = <<>> THEN <<>> ELSE Head(ss) \o Concat(Tail(ss))

\* "\n".join(lines)
RECURSIVE Join(_)
Join(lines) ==
    IF lines = <<>> THEN <<>>
    ELSE IF Len(lines) = 1 THEN lines[1]
    ELSE lines[1] \o <<"\n">> \o Join(Tail(lines))

\* int(number) of a run of decimal digits
RECURSIVE IntOf(_)
IntOf(ds) ==
    IF ds = <<>> THEN 0
    ELSE 10 * IntOf(SubSeq(ds, 1, Len(ds) - 1)) + DigitVal(ds[Len(ds)])

\* "%d" % i
RECURSIVE FormatInt(_)
FormatInt(i) ==
    IF i < 10 THEN <<DigitChar[i + 1]>>
    ELSE FormatInt(i \div 10) \o <<DigitChar[(i % 10) + 1]>>

HasPrefixAt(text, p, sub) ==
    /\ p + Len(sub) - 1 <= Len(text)
    /\ \A k \in 1..Len(sub) : text[p + k - 1] = sub[k]

\* sub in text
Contains(text, sub) == \E p \in 1..Len(text) : HasPrefixAt(text, p, sub)

\* text.endswith(sub)
EndsWith(text, sub) ==
    /\ Len(sub) <= Len(text)
    /\ HasPrefixAt(text, Len(text) - Len(sub) + 1, sub)

-----------------------------------------------------------------------------
(* Route patterns.  A pattern is a sequence of regular-expression          *)
(* elements; PatternText renders the text of the compiled pattern and      *)
(* MatchFrom interprets it.                                                *)

Lit(s) == [k |-> "lit", s |-> s]
Seg == [k |-> "seg", s |-> ""]
OptSlash == [k |-> "optslash", s |-> ""]
Grp(s) == [k |-> "grp", s |-> s]
Num == [k |-> "num", s |-> "number"]
Fmt == [k |-> "fmt", s |-> "key_format"]

\* A version prefix that accepts the token "latest" only.
VersionPrefixLatestOnly == <<Lit(Slash), Lit("latest")>>

\* r"/[^\/]+"
VersionPrefix == <<Lit(Slash), Seg>>

\* r"/[^\/]+/meta-data/"
MetaPrefix == VersionPrefix \o <<Lit(Slash), Lit("meta-data"), Lit(Slash)>>

Route(pattern, class) == [pattern |-> pattern, handler |-> class]

\* The availability-zone route registered without its capturing group.
PlacementZoneRouteNoCapture ==
    Route(MetaPrefix \o <<Lit("placement"), Lit(Slash), Lit("availability-zone")>>,
          "PlacementAvailabilityZoneHandler")

\* r"/[^\/]+/meta-data/placement/(availability-zone)"
PlacementZoneRoute ==
    Route(MetaPrefix \o <<Lit("placement"), Lit(Slash), Grp("availability-zone")>>,
          "PlacementAvailabilityZoneHandler")

routes ==
    << Route(<<Lit(Slash)>>, "ApiRootHandler"),
       Route(VersionPrefix, "NullHandler"),
       Route(VersionPrefix \o <<Lit(Slash)>>, "ApiVersionRootHandler"),
       Route(VersionPrefix \o <<Lit(Slash), Lit("meta-data")>>, "NullHandler"),
       Route(MetaPrefix, "MetadataHandler"),
       Route(MetaPrefix \o <<Lit("instance-id")>>, "InstanceIdHandler"),
       Route(MetaPrefix \o <<Lit("instance-type")>>, "InstanceTypeHandler"),
       Route(MetaPrefix \o <<Lit("hostname")>>, "InstanceHostnameHandler"),
       Route(MetaPrefix \o <<Lit("local-hostname")>>, "InstanceLocalHostnameHandler"),
       Route(MetaPrefix \o <<Lit("local-ipv4")>>, "LocalIpv4Handler"),
       Route(MetaPrefix \o <<Lit("public-ipv4")>>, "PublicIpv4Handler"),
       Route(MetaPrefix \o <<Lit("placement"), OptSlash>>,
             "PlacementAvailabilityZoneHandler"),
       PlacementZoneRoute,
       Route(MetaPrefix \o <<Lit("public-keys"), OptSlash>>, "PublicKeysHandler"),
       Route(MetaPrefix \o <<Lit("public-keys"), Lit(Slash), Num, OptSlash>>,
             "PublicKeysHandler"),
       Route(MetaPrefix \o <<Lit("public-keys"), Lit(Slash), Num, Lit(Slash), Fmt>>,
             "PublicKeysHandler"),
       Route(VersionPrefix \o <<Lit(Slash), Lit("user-data"), OptSlash>>,
             "UserDataHandler") >>

\* The routes in the order of their registration.
Registered == [k \in 1..Len(routes) |-> k]

\* application.handlers[0][1]: the route table the application was built
\* with.  order[k] names the entry of routes registered at position k.
handlers == [k \in 1..Len(order) |-> routes[order[k]]]

\* The text of one pattern element, as written in the route table.
ElemText(e) ==
    CASE e.k = "lit" -> <<e.s>>
      [] e.k = "seg" -> <<"[^\\", Slash, "]+">>
      [] e.k = "optslash" -> <<Slash, "?">>
      [] e.k = "grp" -> <<"(", e.s, ")">>
      [] e.k = "num" -> <<"(", "?", "P<number>\\d+)">>
      [] e.k = "fmt" -> <<"(", "?", "P<key_format>[^", Slash, "]+)">>

\* urlspec.regex.pattern: the route's pattern with "$" appended.
PatternText(pattern) ==
    Concat([i \in 1..Len(pattern) |-> ElemText(pattern[i])]) \o <<"$">>

\* .+ : the end positions of a non-empty run of any atoms, "/" included.
SegmentEndsAny(path, j) == j..Len(path)

\* [^/]+ : the end positions k of a non-empty run path[j..k] free of "/".
SegmentEnds(path, j) ==
    {k \in j..Len(path) : \A x \in j..k : path[x] # Slash}

\* \d+ : the end positions k of a non-empty run path[j..k] of digits.
DigitEnds(path, j) ==
    {k \in j..Len(path) : \A x \in j..k : path[x] \in Digits}

Bind(name, value, rest) == {<<[name |-> name, value |-> value]>> \o b : b \in rest}

\* The captures of every way pattern[i..] matches path[j..] to its end.  A
\* capture list holds one [name, value] per group in pattern order; name is
\* "" for an unnamed group.
RECURSIVE MatchFrom(_, _, _, _)
MatchFrom(pattern, i, path, j) ==
    IF i > Len(pattern) THEN (IF j = Len(path) + 1 THEN {<<>>} ELSE {})
    ELSE LET e == pattern[i]
             here == j <= Len(path)
         IN CASE e.k = "lit" ->
                  IF here /\ path[j] = e.s
                  THEN MatchFrom(pattern, i + 1, path, j + 1) ELSE {}
              [] e.k = "optslash" ->
                  (IF here /\ path[j] = Slash
                   THEN MatchFrom(pattern, i + 1, path, j + 1) ELSE {})
                  \cup MatchFrom(pattern, i + 1, path, j)
              [] e.k = "grp" ->
                  IF here /\ path[j] = e.s
                  THEN Bind("", <<path[j]>>, MatchFrom(pattern, i + 1, path, j + 1))
                  ELSE {}
              [] e.k = "seg" ->
                  UNION {MatchFrom(pattern, i + 1, path, k + 1) :
                           k \in SegmentEnds(path, j)}
              [] e.k = "num" ->
                  UNION {Bind(e.s, SubSeq(path, j, k),
                              MatchFrom(pattern, i + 1, path, k + 1)) :
                           k \in DigitEnds(path, j)}
              [] e.k = "fmt" ->
                  UNION {Bind(e.s, SubSeq(path, j, k),
                              MatchFrom(pattern, i + 1, path, k + 1)) :
                           k \in SegmentEnds(path, j)}

\* spec.regex.match(request.path)
Matches(pattern, path) == MatchFrom(pattern, 1, path, 1) # {}

Captures(pattern, path) == CHOOSE b \in MatchFrom(pattern, 1, path, 1) : TRUE

\* The indices of the routes of table that match path.
MatchingRoutes(table, path) ==
    {i \in 1..Len(table) : Matches(table[i].pattern, path)}

Min(S) == CHOOSE x \in S : \A y \in S : x <= y

Max(S) == CHOOSE x \in S : \A y \in S : x >= y

\* Tornado passes the named groups as keyword arguments when the pattern has
\* any, and otherwise the unnamed groups as positional arguments.
PathArgs(caps) ==
    LET named == {i \in 1..Len(caps) : caps[i].name # ""}
    IN  IF named # {}
        THEN [args |-> <<>>, kwargs |-> caps]
        ELSE [args |-> [i \in 1..Len(caps) |-> caps[i].value], kwargs |-> <<>>]

\* The value bound to a handler parameter: the keyword argument of that name,
\* else the positional argument at position pos, else the default None.
Param(pa, name, pos) ==
    LET hits == {i \in 1..Len(pa.kwargs) : pa.kwargs[i].name = name}
    IN  IF hits # {} THEN pa.kwargs[Min(hits)].value
        ELSE IF pos <= Len(pa.args) THEN pa.args[pos]
        ELSE None

\* The application's dispatch: the first route of table whose pattern matches
\* the whole path, with the handler arguments the match yields; route 0 and
\* Tornado's ErrorHandler when none matches.
Dispatch(table, path) ==
    LET hit == MatchingRoutes(table, path)
    IN  IF hit = {}
        THEN [route |-> 0, handler |-> "ErrorHandler",
              pa |-> [args |-> <<>>, kwargs |-> <<>>]]
        ELSE [route |-> Min(hit), handler |-> table[Min(hit)].handler,
              pa |-> PathArgs(Captures(table[Min(hit)].pattern, path))]

-----------------------------------------------------------------------------
(* MetadataHandler: the listing derived from the text of the patterns.     *)

MetaDataSlash == <<Slash, "meta-data", Slash>>

\* re.search(r'/meta-data/([^/]+/?)\??\$$', text): every way the expression
\* matches, as [p, k, s]: "/meta-data/" found at p, the [^/]+ run ending at
\* k, and s = 1 when the optional "/" of the group is taken.
LeafMatches(text) ==
    {m \in [p : 1..Len(text), k : 1..Len(text), s : 0..1] :
        /\ HasPrefixAt(text, m.p, MetaDataSlash)
        /\ m.k \in SegmentEnds(text, m.p + 3)
        /\ (m.s = 1 => (m.k + 1 <= Len(text) /\ text[m.k + 1] = Slash))
        /\ \E q \in 0..1 :
             /\ (q = 1 => (m.k + m.s + 1 <= Len(text) /\ text[m.k + m.s + 1] = "?"))
             /\ m.k + m.s + q + 1 = Len(text)
             /\ text[Len(text)] = "$"}

\* match.group(1) of the match the regular-expression engine returns: the
\* leftmost, with the longest [^/]+ run, taking the optional "/" if it can.
LeafGroup(text) ==
    LET ms == LeafMatches(text)
        p == Min({m.p : m \in ms})
        k == Max({m.k : m \in {x \in ms : x.p = p}})
        s == Max({m.s : m \in {x \in ms : x.p = p /\ x.k = k}})
    IN  SubSeq(text, p + 3, k + s)

\* The urls a urlspec adds to the listing (none or one).
LeafOf(urlspec) ==
    LET text == PatternText(urlspec.pattern)
    IN  IF /\ Contains(text, MetaDataSlash)
           /\ ~EndsWith(text, MetaDataSlash \o <<"$">>)
           /\ LeafMatches(text) # {}
        THEN <<LeafGroup(text)>>
        ELSE <<>>

\* The listing built by scanning the table from its last entry to its first.
RECURSIVE LeafUrlsReversed(_, _)
LeafUrlsReversed(table, i) ==
    IF i > Len(table) THEN <<>>
    ELSE LeafUrlsReversed(table, i + 1) \o LeafOf(table[i])

\* urls after the loop over application.handlers[0][1][i..]
RECURSIVE LeafUrls(_, _)
LeafUrls(table, i) ==
    IF i > Len(table) THEN <<>>
    ELSE LeafOf(table[i]) \o LeafUrls(table, i + 1)

-----------------------------------------------------------------------------
(* Machines and the resolver's directory.                                  *)

KeyNames == {"id_rsa", "id_dsa", "backup"}

\* The formats of a key, in their stored order, each with its key material.
FormatsOf(name) ==
    CASE name = "id_rsa" ->
           << [fmt |-> "openssh-key", material |-> <<"ssh-rsa", " ", "AAAA-rsa">>],
              [fmt |-> "fingerprint", material |-> <<"12:34">>] >>
      [] name = "id_dsa" ->
           << [fmt |-> "fingerprint", material |-> <<"56:78">>],
              [fmt |-> "openssh-key", material |-> <<"ssh-dss", " ", "AAAA-dsa">>] >>
      [] OTHER ->
           << [fmt |-> "openssh-key", material |-> <<"AAAA-backup", "\n">>] >>

\* The ordered key tables of at most MaxKeys keys, no name twice.
KeyTables ==
    {kt \in UNION {[1..n -> KeyNames] : n \in 0..MaxKeys} :
        \A i, j \in DOMAIN kt : kt[i] = kt[j] => i = j}

Machine(id, kt, zone) ==
    [kind |-> "machine",
     instance_id |-> <<id>>,
     hostname |-> <<id, ".example.com">>,
     local_hostname |-> <<id, ".internal">>,
     instance_type |-> <<"m1.small">>,
     local_ipv4 |-> <<"10.0.0.7">>,
     public_ipv4 |-> <<>>,
     availability_zone |-> zone,
     user_data |-> <<"#!/bin/sh", "\n", "true">>,
     keys |-> [i \in 1..Len(kt) |-> [name |-> kt[i], formats |-> FormatsOf(kt[i])]]]

\* The resolver's answer for an address it has no machine for.
NoMachine == [kind |-> "none"]

\* The request attribute before prepare has set it.
Unset == [kind |-> "unset"]

Machines ==
    {Machine("i-0001", kt, <<"us-east-1a">>) : kt \in KeyTables}
    \cup {Machine("i-0002", <<>>, <<"availability-zone">>)}

Addrs == {"10.0.0.1", "10.0.0.2"}

\* machine_resolver.get_machine(remote_ip)
GetMachine(dir, ip) == dir[ip]

-----------------------------------------------------------------------------
(* Responses.  status and body are what the caller sees; fault names the   *)
(* exception that left the handler uncaught ("none" when there was none).  *)

\* The handler returned: the written body is sent with status 200.
Ok(body) == [status |-> 200, body |-> body, fault |-> "none"]

\* An exception other than HTTPError left prepare or get: Tornado drops what
\* was written and sends its error page with status 500.
Fault(exc) ==
    [status |-> 500, body |-> <<"500: Internal Server Error">>, fault |-> exc]

\* No route matched: Tornado's ErrorHandler answers 404.
NoRoute == [status |-> 404, body |-> <<"404: Not Found">>, fault |-> "none"]

NoResponse == [status |-> 0, body |-> <<>>, fault |-> "none"]

-----------------------------------------------------------------------------
(* The handlers' get methods.                                              *)

NullHandlerGet == Ok(<<>>)

versions ==
    << <<"1.0">>, <<"2007-01-19">>, <<"2007-03-01">>, <<"2007-08-29">>,
       <<"2007-10-10">>, <<"2007-12-15">>, <<"2008-02-01">>, <<"2008-09-01">>,
       <<"2009-04-04">>, <<"2011-01-01">>, <<"2011-05-01">>, <<"2012-01-12">>,
       <<"latest">> >>

ApiRootHandlerGet == Ok(Join(versions))

apis == << <<"meta-data">>, <<"user-data">> >>

ApiVersionRootHandlerGet == Ok(Join(apis))

MetadataHandlerGet(table) == Ok(Join(LeafUrls(table, 1)))

PlacementAvailabilityZoneHandlerGet(what, m) ==
    IF what = <<"availability-zone">>
    THEN Ok(m.availability_zone)
    ELSE Ok(<<"availability-zone">>)

\* The key list numbered from one.
KeyListingFromOne(m) ==
    [i \in 1..Len(m.keys) |-> FormatInt(i) \o <<"=">> \o <<m.keys[i].name>>]

\* ["%d=%s" % (i, key_name) for i, key_name in enumerate(get_keys())]
KeyListing(m) ==
    [i \in 1..Len(m.keys) |-> FormatInt(i - 1) \o <<"=">> \o <<m.keys[i].name>>]

\* get_keys().values()[number], for 0 <= number < len
KeyAt(m, number) == m.keys[number + 1]

\* key.keys()
FormatNames(key) == [j \in 1..Len(key.formats) |-> <<key.formats[j].fmt>>]

PublicKeysHandlerGet(number, key_format, m) ==
    LET n == IF number = None THEN 0 ELSE IntOf(number)
    IN  IF number = None /\ key_format = None
        THEN Ok(Join(KeyListing(m)))
        ELSE IF key_format = None
        THEN IF n >= Len(m.keys) THEN Fault("IndexError")
             ELSE Ok(Join(FormatNames(KeyAt(m, n))))
        ELSE IF number = None THEN Fault("TypeError")
        ELSE IF n >= Len(m.keys) THEN Fault("IndexError")
        ELSE LET key == KeyAt(m, n)
                 hit == {j \in 1..Len(key.formats) : <<key.formats[j].fmt>> = key_format}
             IN  IF hit = {} THEN Fault("KeyError")
                 ELSE Ok(key.formats[Min(hit)].material)

\* handler.get(*args, **kwargs) of the handler class bound to the route
HandlerGet(class, pa, m, table) ==
    CASE class = "NullHandler" -> NullHandlerGet
      [] class = "ApiRootHandler" -> ApiRootHandlerGet
      [] class = "ApiVersionRootHandler" -> ApiVersionRootHandlerGet
      [] class = "MetadataHandler" -> MetadataHandlerGet(table)
      [] class = "InstanceIdHandler" -> Ok(m.instance_id)
      [] class = "InstanceHostnameHandler" -> Ok(m.hostname)
      [] class = "InstanceLocalHostnameHandler" -> Ok(m.local_hostname)
      [] class = "InstanceTypeHandler" -> Ok(m.instance_type)
      [] class = "LocalIpv4Handler" -> Ok(m.local_ipv4)
      [] class = "PublicIpv4Handler" -> Ok(m.public_ipv4)
      [] class = "PlacementAvailabilityZoneHandler" ->
           PlacementAvailabilityZoneHandlerGet(Param(pa, "what", 1), m)
      [] class = "UserDataHandler" -> Ok(m.user_data)
      [] class = "PublicKeysHandler" ->
           PublicKeysHandlerGet(Param(pa, "number", 1), Param(pa, "key_format", 2), m)

-----------------------------------------------------------------------------
(* Requests.  One request is received, bound to a handler by the           *)
(* application, prepared, and answered by the handler's get.               *)

Idle ==
    [pc |-> "idle", addr |-> "", path |-> <<>>, route |-> 0, handler |-> "",
     pa |-> [args |-> <<>>, kwargs |-> <<>>], machine |-> Unset,
     resolved |-> Unset, resp |-> NoResponse, log |-> <<>>]

\* The machine a handler reads off the request of another request in flight.
OtherRequestMachine(r) ==
    LET others == {o \in DOMAIN reqs : o # r /\ reqs[o].machine.kind = "machine"}
    IN  IF others = {} THEN reqs[r].machine ELSE reqs[Min(others)].machine

\* self.request.machine, as a handler reads it
RequestMachine(r) == reqs[r].machine

\* The server reads a request: its source address and its path.
Receive(r, paths) ==
    /\ reqs[r].pc = "idle"
    /\ \E a \in Addrs, p \in paths :
         reqs' = [reqs EXCEPT ![r] = [@ EXCEPT !.pc = "received", !.addr = a, !.path = p]]
    /\ UNCHANGED <<order, directory>>

\* The application scans its route table and binds the request to a handler.
Match(r) ==
    /\ reqs[r].pc = "received"
    /\ LET d == Dispatch(handlers, reqs[r].path)
       IN  reqs' = [reqs EXCEPT ![r] =
                      [@ EXCEPT !.pc = "matched", !.route = d.route,
                                !.handler = d.handler, !.pa = d.pa,
                                !.log = Append(@, "match")]]
    /\ UNCHANGED <<order, directory>>

\* prepare with the assertion left out: the request goes on to get.
PrepareWithoutAssert(r) ==
    /\ reqs[r].pc = "matched"
    /\ IF reqs[r].handler = "ErrorHandler"
       THEN reqs' = [reqs EXCEPT ![r] = [@ EXCEPT !.pc = "done", !.resp = NoRoute]]
       ELSE LET m == GetMachine(directory, reqs[r].addr)
            IN  reqs' = [reqs EXCEPT ![r] =
                           [@ EXCEPT !.machine = m, !.resolved = m,
                                     !.log = Append(@, "resolve"),
                                     !.pc = "prepared"]]
    /\ UNCHANGED <<order, directory>>

\* handler.prepare(): ErrorHandler answers 404; ApiBaseHandler resolves the
\* machine, stores it on the request and asserts that it is a Machine.
Prepare(r) ==
    /\ reqs[r].pc = "matched"
    /\ IF reqs[r].handler = "ErrorHandler"
       THEN reqs' = [reqs EXCEPT ![r] = [@ EXCEPT !.pc = "done", !.resp = NoRoute]]
       ELSE LET m == GetMachine(directory, reqs[r].addr)
            IN  reqs' = [reqs EXCEPT ![r] =
                           [@ EXCEPT !.machine = m, !.resolved = m,
                                     !.log = Append(@, "resolve"),
                                     !.pc = IF m.kind = "machine"
                                            THEN "prepared" ELSE "done",
                                     !.resp = IF m.kind = "machine"
                                              THEN @ ELSE Fault("AssertionError")]]
    /\ UNCHANGED <<order, directory>>

\* handler.get(*args, **kwargs), then finish.
Get(r) ==
    /\ reqs[r].pc = "prepared"
    /\ reqs' = [reqs EXCEPT ![r] =
                  [@ EXCEPT !.pc = "done", !.log = Append(@, "invoke"),
                            !.resp = HandlerGet(reqs[r].handler, reqs[r].pa,
                                                RequestMachine(r), handlers)]]
    /\ UNCHANGED <<order, directory>>

\* The resolver's store changes the record of an address.
ChangeRecord(a, m) ==
    /\ directory[a] # m
    /\ directory' = [directory EXCEPT ![a] = m]
    /\ UNCHANGED <<order, reqs>>

-----------------------------------------------------------------------------
(* Request paths.                                                          *)

VersionTokens == {<<"latest">>, <<"1.0">>, <<"9999-99-99">>}

\* Key indices as they appear in a path: in range, out of range, and with
\* more than one digit.
IndexSegs ==
    {FormatInt(i) : i \in 0..(MaxKeys + 1)} \cup {<<"0", "1">>, <<"1", "0">>}

FormatSegs == {<<"openssh-key">>, <<"fingerprint">>, <<"bogus">>}

Leaves ==
    {"instance-id", "instance-type", "hostname", "local-hostname", "local-ipv4",
     "public-ipv4"}

MetaData == <<Slash, "meta-data">>

PublicKeys == MetaData \o <<Slash, "public-keys">>

\* What follows the version token.
Remainders ==
    { <<>>, <<Slash>>, <<Slash, Slash>>, MetaData, MetaData \o <<Slash>>,
      <<Slash, "user-data">>, <<Slash, "user-data", Slash>>,
      <<Slash, "user-data", Slash, "bogus">>, <<Slash, "bogus">>,
      <<Slash, "bogus", Slash>>, MetaData \o <<Slash, "bogus">>,
      MetaData \o <<Slash, "instance-id", Slash>>,
      MetaData \o <<Slash, "placement">>, MetaData \o <<Slash, "placement", Slash>>,
      MetaData \o <<Slash, "placement", Slash, "availability-zone">>,
      MetaData \o <<Slash, "placement", Slash, "availability-zone", Slash>>,
      MetaData \o <<Slash, "placement", Slash, "bogus">>,
      PublicKeys, PublicKeys \o <<Slash>>, PublicKeys \o <<Slash, "bogus", Slash>>,
      PublicKeys \o <<Slash, "0", Slash, "openssh-key", Slash>>,
      PublicKeys \o <<Slash, "0", "bogus">> }
    \cup {MetaData \o <<Slash, l>> : l \in Leaves}
    \cup {PublicKeys \o <<Slash>> \o i : i \in IndexSegs}
    \cup {PublicKeys \o <<Slash>> \o i \o <<Slash>> : i \in IndexSegs}
    \cup {PublicKeys \o <<Slash>> \o i \o <<Slash>> \o f :
            i \in IndexSegs, f \in FormatSegs}

PathAtoms == {Slash, "0", "meta-data", "user-data"}

\* Every path of at most MaxPathLen atoms that starts with "/".
ShortPaths ==
    {p \in UNION {[1..n -> PathAtoms] : n \in 1..MaxPathLen} : p[1] = Slash}

AllPaths ==
    ShortPaths
    \cup {<<Slash>> \o v \o rem : v \in VersionTokens, rem \in Remainders}

-----------------------------------------------------------------------------
(* Specifications.                                                         *)

KnownAddr == "10.0.0.1"

\* One request at a time against a fixed directory: one address has a
\* machine, the other has none.
Init ==
    /\ order = Registered
    /\ directory \in {[a \in Addrs |-> IF a = KnownAddr THEN m ELSE NoMachine] :
                        m \in Machines}
    /\ reqs = [r \in {1} |-> Idle]

Next ==
    \/ \E r \in DOMAIN reqs : Receive(r, AllPaths)
    \/ \E r \in DOMAIN reqs : Match(r)
    \/ \E r \in DOMAIN reqs : Prepare(r)
    \/ \E r \in DOMAIN reqs : Get(r)

Spec == Init /\ [][Next]_vars

\* Concurrent requests: NumReqs requests in flight, their steps interleaved
\* in any order, while the resolver's store moves addresses between machines
\* at any time.
ConcPaths ==
    {<<Slash, "latest">> \o MetaData \o <<Slash, "placement", Slash, "availability-zone">>,
     <<Slash, "1.0">> \o PublicKeys \o <<Slash, "0", Slash>>}

ChurnRecords ==
    {Machine("i-0001", <<"id_rsa">>, <<"us-east-1a">>),
     Machine("i-0002", <<"id_dsa">>, <<"eu-west-1b">>)}

InitConc ==
    /\ order = Registered
    /\ directory \in [Addrs -> ChurnRecords]
    /\ reqs = [r \in 1..NumReqs |-> Idle]

NextConc ==
    \/ \E r \in DOMAIN reqs : Receive(r, ConcPaths)
    \/ \E r \in DOMAIN reqs : Match(r)
    \/ \E r \in DOMAIN reqs : Prepare(r)
    \/ \E r \in DOMAIN reqs : Get(r)
    \/ \E a \in Addrs, m \in ChurnRecords : ChangeRecord(a, m)

SpecConc == InitConc /\ [][NextConc]_vars

\* The listing under other registration orders: the application is built
\* from the registered routes with two entries exchanged.
Swap(table, i, j) ==
    [k \in 1..Len(table) |->
        IF k = i THEN table[j] ELSE IF k = j THEN table[i] ELSE table[k]]

RouteOrders == {Swap(Registered, i, j) : i, j \in 1..Len(routes)}

ListingPaths ==
    {<<Slash>> \o v \o MetaData \o <<Slash>> : v \in VersionTokens}
    \cup {<<Slash, "latest">> \o MetaData \o <<Slash, "placement", Slash>>}

InitListing ==
    /\ order \in RouteOrders
    /\ directory = [a \in Addrs |->
                      IF a = KnownAddr
                      THEN Machine("i-0001", <<"id_rsa">>, <<"us-east-1a">>)
                      ELSE NoMachine]
    /\ reqs = [r \in {1} |-> Idle]

NextListing ==
    \/ \E r \in DOMAIN reqs : Receive(r, ListingPaths)
    \/ \E r \in DOMAIN reqs : Match(r)
    \/ \E r \in DOMAIN reqs : Prepare(r)
    \/ \E r \in DOMAIN reqs : Get(r)

SpecListing == InitListing /\ [][NextListing]_vars

-----------------------------------------------------------------------------
(* Vocabulary of the properties.                                           *)

Done(r) == reqs[r].pc = "done"

Invoked(r) == \E k \in DOMAIN reqs[r].log : reqs[r].log[k] = "invoke"

Consults(r) == Cardinality({k \in DOMAIN reqs[r].log : reqs[r].log[k] = "resolve"})

\* The request's path is some version token followed by rem.
Asks(r, rem) == \E v \in VersionTokens : reqs[r].path = <<Slash>> \o v \o rem

\* The request was answered by a handler's get for a resolved machine.
Served(r) == Done(r) /\ Invoked(r) /\ reqs[r].resolved.kind = "machine"

\* What the caller can observe of a response.
Visible(resp) == <<resp.status, resp.body>>

\* The lines of a body, split at "\n".
RECURSIVE Lines(_)
Lines(body) ==
    IF body = <<>> THEN <<>>
    ELSE LET breaks == {k \in 1..Len(body) : body[k] = "\n"}
         IN  IF breaks = {} THEN <<body>>
             ELSE <<SubSeq(body, 1, Min(breaks) - 1)>>
                  \o Lines(SubSeq(body, Min(breaks) + 1, Len(body)))

\* A public-keys request that carries index i, with or without a format.
AsksIndex(r, i) ==
    \/ Asks(r, PublicKeys \o <<Slash>> \o i)
    \/ Asks(r, PublicKeys \o <<Slash>> \o i \o <<Slash>>)
    \/ \E f \in FormatSegs : Asks(r, PublicKeys \o <<Slash>> \o i \o <<Slash>> \o f)

-----------------------------------------------------------------------------
(* C1 (as claimed): a public-keys request, of either indexed shape, whose  *)
(* index is at least the number of keys of the machine ends in a           *)
(* not-found-class response and never in an unhandled fault.               *)
C1_IndexBeyondKeysIsNotFound ==
    \A r \in DOMAIN reqs : \A i \in IndexSegs :
        (/\ Done(r)
         /\ reqs[r].resolved.kind = "machine"
         /\ AsksIndex(r, i)
         /\ IntOf(i) >= Len(reqs[r].resolved.keys))
        => (reqs[r].resp.status = 404 /\ reqs[r].resp.fault = "none")

\* A metadata or user-data route: every route below "/<version>/".
IsDataRoute(i) == i > 3

(* C2 (as claimed): a request to a metadata or user-data path from an      *)
(* address the resolver has no machine for runs no handler body, produces  *)
(* no success body, and ends in one outcome that is not an unhandled fault *)
(* and that the caller can tell from a successful empty field and from the *)
(* other error outcomes (no route, key index out of range, unknown format).*)
C2_UnknownAddressIsDistinctOutcome ==
    \A r \in DOMAIN reqs :
        (/\ Done(r)
         /\ IsDataRoute(reqs[r].route)
         /\ reqs[r].resolved.kind = "none")
        => (/\ ~Invoked(r)
            /\ reqs[r].resp.status # 200
            /\ reqs[r].resp.fault = "none"
            /\ Visible(reqs[r].resp) \notin
                 {Visible(Ok(<<>>)), Visible(NoRoute),
                  Visible(Fault("IndexError")), Visible(Fault("KeyError"))})

(* C3: the three public-keys steps agree.  The list step answers one line  *)
(* "<i>=<name>" per key, i the zero-based position of the key named        *)
(* <name>; for a listed i the describe step answers the format names of    *)
(* that key, one per line in stored order; for a format so listed the      *)
(* fetch step answers the stored key material unchanged; none of these     *)
(* requests ends in an error.                                              *)
C3_PublicKeysWalkConsistent ==
    \A r \in DOMAIN reqs :
        (Done(r) /\ reqs[r].resolved.kind = "machine") =>
            LET m == reqs[r].resolved
                resp == reqs[r].resp
                lines == Lines(resp.body)
            IN  /\ (Asks(r, PublicKeys) \/ Asks(r, PublicKeys \o <<Slash>>)) =>
                     /\ resp.status = 200 /\ resp.fault = "none"
                     /\ Len(lines) = Len(m.keys)
                     /\ \A p \in 1..Len(lines) :
                          LET line == lines[p]
                              ds == SubSeq(line, 1, Len(line) - 2)
                          IN  /\ Len(line) >= 3
                              /\ \A k \in 1..Len(ds) : ds[k] \in Digits
                              /\ IntOf(ds) = p - 1
                              /\ line[Len(line) - 1] = "="
                              /\ line[Len(line)] = m.keys[p].name
                /\ \A i \in IndexSegs :
                     IntOf(i) < Len(m.keys) =>
                       LET key == m.keys[IntOf(i) + 1]
                       IN  /\ (\/ Asks(r, PublicKeys \o <<Slash>> \o i)
                               \/ Asks(r, PublicKeys \o <<Slash>> \o i \o <<Slash>>)) =>
                                 /\ resp.status = 200 /\ resp.fault = "none"
                                 /\ lines = [j \in 1..Len(key.formats) |->
                                               <<key.formats[j].fmt>>]
                           /\ \A j \in 1..Len(key.formats) :
                                Asks(r, PublicKeys \o <<Slash>> \o i \o <<Slash>>
                                          \o <<key.formats[j].fmt>>) =>
                                  resp = Ok(key.formats[j].material)

\* A fetch of the second format of the second key of a two-key machine was
\* answered.
C3_Witness ==
    \E r \in DOMAIN reqs :
        /\ Served(r)
        /\ Len(reqs[r].resolved.keys) = 2
        /\ Len(reqs[r].resolved.keys[2].formats) = 2
        /\ Asks(r, PublicKeys \o <<Slash, "1", Slash>>
                     \o <<reqs[r].resolved.keys[2].formats[2].fmt>>)
        /\ reqs[r].resp.status = 200

\* The pattern lies under "/<version>/meta-data/" and goes deeper.
UnderMetaData(pattern) ==
    /\ Len(pattern) > Len(MetaPrefix)
    /\ SubSeq(pattern, 1, Len(MetaPrefix)) = MetaPrefix

\* The pattern is exactly one literal component below "/<version>/meta-data/",
\* optionally followed by an optional "/".
IsSingleLeaf(pattern) ==
    /\ UnderMetaData(pattern)
    /\ pattern[Len(MetaPrefix) + 1].k = "lit"
    /\ \/ Len(pattern) = Len(MetaPrefix) + 1
       \/ /\ Len(pattern) = Len(MetaPrefix) + 2
          /\ pattern[Len(MetaPrefix) + 2] = OptSlash

\* The component directly following "meta-data/", with the slash that follows
\* it in the pattern, if any.
FirstComponent(pattern) ==
    <<pattern[Len(MetaPrefix) + 1].s>>
    \o (IF /\ Len(pattern) > Len(MetaPrefix) + 1
           /\ pattern[Len(MetaPrefix) + 2].k \in {"optslash", "lit"}
        THEN <<Slash>> ELSE <<>>)

RECURSIVE SingleLeaves(_, _)
SingleLeaves(table, i) ==
    IF i > Len(table) THEN <<>>
    ELSE (IF IsSingleLeaf(table[i].pattern)
          THEN <<FirstComponent(table[i].pattern)>> ELSE <<>>)
         \o SingleLeaves(table, i + 1)

RECURSIVE DeeperLeaves(_, _)
DeeperLeaves(table, i) ==
    IF i > Len(table) THEN <<>>
    ELSE (IF UnderMetaData(table[i].pattern)
          THEN <<FirstComponent(table[i].pattern)>> ELSE <<>>)
         \o DeeperLeaves(table, i + 1)

\* The single-leaf routes of a table, in table order.
RECURSIVE LeafRoutes(_, _)
LeafRoutes(table, i) ==
    IF i > Len(table) THEN <<>>
    ELSE (IF IsSingleLeaf(table[i].pattern) THEN <<table[i]>> ELSE <<>>)
         \o LeafRoutes(table, i + 1)

(* C4 (as claimed): the body at /<version>/meta-data/ has one line per     *)
(* route that lies under the metadata category and is deeper than the      *)
(* listing route: the component directly following "meta-data/", trailing  *)
(* slash preserved, in registration order.                                 *)
C4_EveryDeeperRouteListed ==
    \A r \in DOMAIN reqs :
        (Served(r) /\ reqs[r].handler = "MetadataHandler")
        => reqs[r].resp = Ok(Join(DeeperLeaves(handlers, 1)))

(* C4 (amended): the body at /<version>/meta-data/ has one line per route  *)
(* whose pattern is exactly one component below "meta-data/" (with an      *)
(* optional trailing slash, which is preserved), in registration order;    *)
(* deeper routes and the listing route itself add no line; the body equals *)
(* the body under the registered order exactly when the single-component   *)
(* metadata routes keep their registered order, whatever the position of   *)
(* the other routes.                                                       *)
C4_SingleLeavesListedInOrder ==
    \A r \in DOMAIN reqs :
        (Served(r) /\ reqs[r].handler = "MetadataHandler")
        => /\ reqs[r].resp = Ok(Join(SingleLeaves(handlers, 1)))
           /\ \A k \in 1..Len(Lines(reqs[r].resp.body)) :
                Lines(reqs[r].resp.body)[k] \notin {<<>>, <<Slash>>, <<"meta-data", Slash>>}
           /\ (reqs[r].resp = Ok(Join(SingleLeaves(routes, 1))))
                <=> (LeafRoutes(handlers, 1) = LeafRoutes(routes, 1))

\* The listing was served under an order that exchanges two metadata leaves.
C4_Witness ==
    \E r \in DOMAIN reqs :
        /\ Served(r) /\ reqs[r].handler = "MetadataHandler"
        /\ handlers # routes
        /\ handlers[6] = routes[7] /\ handlers[7] = routes[6]
        /\ Len(Lines(reqs[r].resp.body)) = 8

C6_PlacementHintAndZone ==
    \A r \in DOMAIN reqs :
        Served(r) =>
            LET zone == reqs[r].resolved.availability_zone
                hint == Ok(<<"availability-zone">>)
            IN  /\ (\/ Asks(r, MetaData \o <<Slash, "placement", Slash>>)
                    \/ Asks(r, MetaData \o <<Slash, "placement">>)) =>
                      reqs[r].resp = hint
                /\ Asks(r, MetaData \o <<Slash, "placement", Slash, "availability-zone">>) =>
                      /\ handlers[reqs[r].route] = PlacementZoneRoute
                      /\ 12 \notin MatchingRoutes(handlers, reqs[r].path)
                      /\ Param(reqs[r].pa, "what", 1) = <<"availability-zone">>
                      /\ reqs[r].resp = Ok(zone)
                      /\ (zone # <<"availability-zone">> => reqs[r].resp # hint)

\* The zone of a machine in another zone was served.
C6_Witness ==
    \E r \in DOMAIN reqs :
        /\ Served(r)
        /\ Asks(r, MetaData \o <<Slash, "placement", Slash, "availability-zone">>)
        /\ reqs[r].resp.body = <<"us-east-1a">>

\* Version tokens a request is compared with: the ones in use and others.
ProbeTokens == VersionTokens \cup {<<"meta-data">>, <<"2", "0">>, <<"v", "-", "x">>}

C8_UnknownFormatIsClassified ==
    \A r \in DOMAIN reqs : \A i \in IndexSegs : \A f \in FormatSegs :
        (/\ Done(r)
         /\ reqs[r].resolved.kind = "machine"
         /\ Asks(r, PublicKeys \o <<Slash>> \o i \o <<Slash>> \o f)
         /\ IntOf(i) < Len(reqs[r].resolved.keys)
         /\ \A j \in DOMAIN reqs[r].resolved.keys[IntOf(i) + 1].formats :
              <<reqs[r].resolved.keys[IntOf(i) + 1].formats[j].fmt>> # f)
        => (reqs[r].resp.fault = "none" /\ reqs[r].resp.status \in {200, 404})

(* C9: under any interleaving of requests and of changes of the resolver's *)
(* records, the resolver is consulted at most once per request and exactly *)
(* once for a served one, the machine it returned then is the one held in  *)
(* the request's own context, and the answer is the one its handler gives  *)
(* for that machine and for the arguments of the request's own path.       *)
C9_ResponseFromOwnMachine ==
    \A r \in DOMAIN reqs :
        /\ Consults(r) <= 1
        /\ reqs[r].machine = reqs[r].resolved
        /\ (reqs[r].pc \in {"idle", "received", "matched"}) => reqs[r].machine = Unset
        /\ Served(r) =>
             LET d == Dispatch(handlers, reqs[r].path)
             IN  /\ Consults(r) = 1
                 /\ reqs[r].handler = d.handler
                 /\ reqs[r].pa = d.pa
                 /\ reqs[r].resp = HandlerGet(d.handler, d.pa, reqs[r].resolved, handlers)

\* Two requests from different addresses were served for different machines,
\* and the record of the first one's address has changed since.
C9_Witness ==
    \E r, o \in DOMAIN reqs :
        /\ Served(r) /\ Served(o)
        /\ reqs[r].addr # reqs[o].addr
        /\ reqs[r].resolved # reqs[o].resolved
        /\ reqs[r].path = reqs[o].path
        /\ reqs[r].resp # reqs[o].resp
        /\ directory[reqs[r].addr] # reqs[r].resolved

IsPrefix(s, t) == Len(s) <= Len(t) /\ SubSeq(t, 1, Len(s)) = s

=============================================================================
